---- MODULE Spec2Model ----
(***************************************************************************)
(* fend-core: the unit algebra of core/src/num/unit.rs (UnitValue, Unit,   *)
(* NamedUnit, BaseUnit), the number scanner of core/src/lexer.rs and the   *)
(* entry point evaluate_with_interrupt of core/src/lib.rs.                 *)
(*                                                                         *)
(* ExactBase (core/src/num/exact_base.rs) is the exact scalar underneath   *)
(* UnitValue.  It is modelled as a normalised fraction num/den of bounded  *)
(* magnitude; NaR marks a value outside the modelled range, and no action  *)
(* is enabled when it would produce one.                                   *)
(***************************************************************************)
EXTENDS Integers, Sequences, FiniteSets

VARIABLES
    \* the unit calculator
    op, lhs, rhs, result, output, nops, operand_components,
    \* one call of evaluate_with_interrupt
    pc, input, tokens, base, number, digits, interrupt_requested, inner, outcome,
    prefix

calc_vars == <<op, lhs, rhs, result, output, nops, operand_components>>

lex_vars ==
    <<pc, input, tokens, base, number, digits, interrupt_requested, inner, outcome,
      prefix>>

vars == <<calc_vars, lex_vars>>

\* ------------------------------------------------------------------ bounds
\* Largest numerator / denominator the model represents.
MaxMagnitude == 1000000000
\* Number of operations applied one after another to a running value.
MaxOps == 2
\* Largest |exponent| the scalar power expands, largest root it searches.
MaxPow == 3
MaxRoot == 40
\* Fractional digits the formatter writes before it gives up exactness.
MaxFracDigits == 4

\* --------------------------------------------------------------- ExactBase
Abs(x) == IF x < 0 THEN -x ELSE x

RECURSIVE GCD(_, _)
GCD(a, b) == IF b = 0 THEN a ELSE GCD(b, a % b)

NaR == [num |-> 0, den |-> 0]
IsNaR(x) == x.den = 0

\* a * b stays within MaxMagnitude
Fits(a, b) == a = 0 \/ b = 0 \/ Abs(a) <= MaxMagnitude \div Abs(b)

Frac(n, d) ==
    LET g == GCD(Abs(n), d)
    IN  IF Abs(n) \div g > MaxMagnitude \/ d \div g > MaxMagnitude
        THEN NaR
        ELSE [num |-> IF n < 0 THEN -(Abs(n) \div g) ELSE n \div g, den |-> d \div g]

\* From<u64> / From<i32> for ExactBase
FromInt(i) == [num |-> i, den |-> 1]

IsZero(x) == x.num = 0 /\ x.den # 0

ExactNeg(x) == [num |-> -x.num, den |-> x.den]

ExactMul(x, y) ==
    IF IsNaR(x) \/ IsNaR(y) THEN NaR
    ELSE LET g1 == GCD(Abs(x.num), y.den)
             g2 == GCD(Abs(y.num), x.den)
             a == x.num \div g1
             c == y.num \div g2
             b == x.den \div g2
             d == y.den \div g1
         IN  IF x.num = 0 \/ y.num = 0 THEN FromInt(0)
             ELSE IF Fits(a, c) /\ Fits(b, d) THEN [num |-> a * c, den |-> b * d]
             ELSE NaR

ExactAdd(x, y) ==
    IF IsNaR(x) \/ IsNaR(y) THEN NaR
    ELSE LET g == GCD(x.den, y.den)
             m1 == y.den \div g
             m2 == x.den \div g
         IN  IF Fits(x.num, m1) /\ Fits(y.num, m2) /\ Fits(x.den, m1)
             THEN Frac(x.num * m1 + y.num * m2, x.den * m1)
             ELSE NaR

ExactSub(x, y) == ExactAdd(x, ExactNeg(y))

\* Result<T, String>: val is <<v>> for Ok(v) and <<>> otherwise.  "Panic" is
\* an unwrap() on an Err: the call does not return.
Ok(v) == [kind |-> "Ok", val |-> <<v>>, err |-> ""]
Err(e) == [kind |-> "Err", val |-> <<>>, err |-> e]
Panic == [kind |-> "Panic", val |-> <<>>, err |-> ""]
IsOk(r) == r.kind = "Ok"
Unwrap(r) == r.val[1]

DivisionByZero == "Attempt to divide by zero"
UnsupportedOperation == "Unsupported operation"

ExactDiv(x, y) ==
    IF IsZero(y) THEN Err(DivisionByZero)
    ELSE IF IsNaR(x) \/ IsNaR(y) THEN Ok(NaR)
    ELSE Ok(ExactMul(x, IF y.num < 0 THEN [num |-> -y.den, den |-> -y.num]
                                     ELSE [num |-> y.den, den |-> y.num]))

RECURSIVE PowNat(_, _)
PowNat(x, n) == IF n = 0 THEN FromInt(1) ELSE ExactMul(x, PowNat(x, n - 1))

ExactPow(x, e) ==
    IF IsNaR(x) \/ IsNaR(e) \/ Abs(e.num) > MaxPow THEN Ok(NaR)
    ELSE IF e.den # 1 THEN Err(UnsupportedOperation)
    ELSE IF e.num >= 0 THEN Ok(PowNat(x, e.num))
    ELSE IF IsZero(x) THEN Err(DivisionByZero)
    ELSE ExactDiv(FromInt(1), PowNat(x, -e.num))

\* the exact n-th root of a natural number, when there is one below MaxRoot
IntRoots(v, n) == {r \in 0..MaxRoot : PowNat(FromInt(r), n) = FromInt(v)}

ExactRootN(x, n) ==
    IF IsNaR(x) \/ IsNaR(n) THEN Ok(NaR)
    ELSE IF n.den # 1 \/ n.num < 1 \/ n.num > MaxPow \/ x.num < 0
         THEN Err(UnsupportedOperation)
    ELSE LET rn == IntRoots(x.num, n.num)
             rd == IntRoots(x.den, n.num)
         IN  IF rn = {} \/ rd = {} THEN Err(UnsupportedOperation)
             ELSE Ok([num |-> CHOOSE r \in rn : TRUE, den |-> CHOOSE r \in rd : TRUE])

\* Display for ExactBase: the shortest decimal expansion when it ends within
\* MaxFracDigits digits, an "approx. " prefix and the cut expansion otherwise.
Digit == <<"0", "1", "2", "3", "4", "5", "6", "7", "8", "9">>

RECURSIVE NatToString(_)
NatToString(n) ==
    IF n < 10 THEN Digit[n + 1] ELSE NatToString(n \div 10) \o Digit[(n % 10) + 1]

RECURSIVE FracToString(_, _, _)
FracToString(r, d, k) ==
    IF r = 0 \/ k = 0 THEN ""
    ELSE Digit[((r * 10) \div d) + 1] \o FracToString((r * 10) % d, d, k - 1)

RECURSIVE FracEnds(_, _, _)
FracEnds(r, d, k) == r = 0 \/ (k > 0 /\ FracEnds((r * 10) % d, d, k - 1))

Formattable(x) == ~IsNaR(x) /\ x.den <= MaxMagnitude \div 10

ExactToString(x) ==
    LET n == Abs(x.num)
        r == n % x.den
    IN  (IF FracEnds(r, x.den, MaxFracDigits) THEN "" ELSE "approx. ")
        \o (IF x.num < 0 THEN "-" ELSE "")
        \o NatToString(n \div x.den)
        \o (IF r = 0 THEN "" ELSE "." \o FracToString(r, x.den, MaxFracDigits))

\* ------------------------------------------------------------------- units
BaseUnit(name) == [name |-> name]

UnitExponent(unit, exponent) == [unit |-> unit, exponent |-> exponent]

NamedUnit(singular_name, plural_name, spacing, base_units, scale) ==
    [singular_name |-> singular_name, plural_name |-> plural_name,
     spacing |-> spacing, base_units |-> base_units, scale |-> scale]

\* the two named units the source constructs
kg == NamedUnit("kg", "kg", TRUE,
                <<UnitExponent(BaseUnit("kilogram"), FromInt(1))>>, FromInt(1))
g == NamedUnit("g", "g", TRUE,
               <<UnitExponent(BaseUnit("kilogram"), FromInt(1))>>,
               Unwrap(ExactDiv(FromInt(1), FromInt(1000))))

\* further named units NamedUnit::new accepts: a length, an area whose
\* decomposition has an exponent other than 1, a dimensionless unit that
\* attaches without a space, and a mass unit whose scale is zero
m == NamedUnit("m", "m", TRUE,
               <<UnitExponent(BaseUnit("metre"), FromInt(1))>>, FromInt(1))
sqm == NamedUnit("sqm", "sqm", TRUE,
                 <<UnitExponent(BaseUnit("metre"), FromInt(2))>>, FromInt(1))
percent == NamedUnit("%", "%", FALSE, <<>>,
                     Unwrap(ExactDiv(FromInt(1), FromInt(100))))

nil == NamedUnit("nil", "nil", TRUE,
                 <<UnitExponent(BaseUnit("kilogram"), FromInt(1))>>, FromInt(0))

NamedUnits == {kg, g, m, sqm, percent, nil}

Unitless == [components |-> <<>>]

\* UnitValue::new
UnitValue(value, unit_components) ==
    [value |-> value, unit |-> [components |-> unit_components]]

\* HashMap<BaseUnit, ExactBase>: a function on the set of its keys
EmptyMap == [k \in {} |-> NaR]

Insert(hashmap, key, v) ==
    [k \in DOMAIN hashmap \cup {key} |-> IF k = key THEN v ELSE hashmap[k]]

\* the inner loop of into_hashmap_and_scale over base_units[i..]
RECURSIVE FoldBaseUnits(_, _, _, _)
FoldBaseUnits(hashmap, overall_exp, base_units, i) ==
    IF i > Len(base_units) THEN hashmap
    ELSE LET base_unit_exp == base_units[i]
         IN  FoldBaseUnits(
                 IF base_unit_exp.unit \in DOMAIN hashmap
                 THEN Insert(hashmap, base_unit_exp.unit,
                             ExactAdd(hashmap[base_unit_exp.unit],
                                      ExactMul(overall_exp, base_unit_exp.exponent)))
                 ELSE Insert(hashmap, base_unit_exp.unit, overall_exp),
                 overall_exp, base_units, i + 1)

\* the outer loop of into_hashmap_and_scale over components[i..]; acc is
\* [hashmap, scale, panic], panic being the unwrap() of a failed pow
RECURSIVE FoldComponents(_, _, _)
FoldComponents(acc, components, i) ==
    IF i > Len(components) \/ acc.panic THEN acc
    ELSE LET named_unit_exp == components[i]
             overall_exp == named_unit_exp.exponent
             powed == ExactPow(named_unit_exp.unit.scale, overall_exp)
         IN  FoldComponents(
                 [hashmap |-> FoldBaseUnits(acc.hashmap, overall_exp,
                                            named_unit_exp.unit.base_units, 1),
                  scale |-> IF IsOk(powed) THEN ExactMul(acc.scale, Unwrap(powed))
                            ELSE acc.scale,
                  panic |-> ~IsOk(powed)],
                 components, i + 1)

\* into_hashmap_and_scale with the entries of exponent zero left out
into_hashmap_and_scale_dropping_zeroes(unit) ==
    LET full == FoldComponents([hashmap |-> EmptyMap, scale |-> FromInt(1),
                                panic |-> FALSE],
                               unit.components, 1)
        kept == {k \in DOMAIN full.hashmap : ~IsZero(full.hashmap[k])}
    IN  [full EXCEPT !.hashmap = [k \in kept |-> full.hashmap[k]]]

into_hashmap_and_scale(unit) ==
    FoldComponents([hashmap |-> EmptyMap, scale |-> FromInt(1), panic |-> FALSE],
                   unit.components, 1)

DimensionMismatch == "Units are incompatible"

try_convert(from, into) ==
    LET a == into_hashmap_and_scale(from)
        b == into_hashmap_and_scale(into)
    IN  IF a.panic \/ b.panic THEN Panic
        ELSE IF a.hashmap = b.hashmap
             THEN LET q == ExactDiv(a.scale, b.scale)
                  IN  IF IsOk(q) THEN q ELSE Panic
        ELSE Err(DimensionMismatch)

\* add with the right operand's unit as the result unit
add_right_unit(self, rhs_) ==
    LET scale_factor == try_convert(self.unit, rhs_.unit)
    IN  IF ~IsOk(scale_factor) THEN scale_factor
        ELSE Ok([value |-> ExactAdd(ExactMul(self.value, Unwrap(scale_factor)), rhs_.value),
                 unit |-> rhs_.unit])

add(self, rhs_) ==
    LET scale_factor == try_convert(rhs_.unit, self.unit)
    IN  IF ~IsOk(scale_factor) THEN scale_factor
        ELSE Ok([value |-> ExactAdd(self.value, ExactMul(rhs_.value, Unwrap(scale_factor))),
                 unit |-> self.unit])

sub(self, rhs_) ==
    LET scale_factor == try_convert(rhs_.unit, self.unit)
    IN  IF ~IsOk(scale_factor) THEN scale_factor
        ELSE Ok([value |-> ExactSub(self.value, ExactMul(rhs_.value, Unwrap(scale_factor))),
                 unit |-> self.unit])

Negated(components) ==
    [i \in 1..Len(components) |->
        UnitExponent(components[i].unit, ExactNeg(components[i].exponent))]

\* div that refuses operands of different dimensions before dividing
div_checking_units(self, rhs_) ==
    LET components == self.unit.components \o Negated(rhs_.unit.components)
        q == ExactDiv(self.value, rhs_.value)
    IN  IF ~IsOk(try_convert(rhs_.unit, self.unit)) /\ rhs_.unit.components # <<>>
        THEN Err(DimensionMismatch)
        ELSE IF ~IsOk(q) THEN q
        ELSE Ok([value |-> Unwrap(q), unit |-> [components |-> components]])

div(self, rhs_) ==
    LET components == self.unit.components \o Negated(rhs_.unit.components)
        q == ExactDiv(self.value, rhs_.value)
    IN  IF ~IsOk(q) THEN q
        ELSE Ok([value |-> Unwrap(q), unit |-> [components |-> components]])

\* is_unitless that also accepts components whose exponents cancel
is_unitless_cancelling(self) ==
    LET canonical == into_hashmap_and_scale(self.unit)
    IN  \A k \in DOMAIN canonical.hashmap : IsZero(canonical.hashmap[k])

is_unitless(self) == self.unit.components = <<>>

UnsupportedPow == "Exponents are currently only supported for unitless numbers."
UnsupportedRoot == "Roots are currently only supported for unitless numbers."

pow(self, rhs_) ==
    IF ~is_unitless(self) \/ ~is_unitless(rhs_) THEN Err(UnsupportedPow)
    ELSE LET p == ExactPow(self.value, rhs_.value)
         IN  IF ~IsOk(p) THEN p
             ELSE Ok([value |-> Unwrap(p), unit |-> self.unit])

root_n(self, rhs_) ==
    IF ~is_unitless(self) \/ ~is_unitless(rhs_) THEN Err(UnsupportedRoot)
    ELSE LET p == ExactRootN(self.value, rhs_.value)
         IN  IF ~IsOk(p) THEN p
             ELSE Ok([value |-> Unwrap(p), unit |-> self.unit])

\* mul that folds a repeated named unit into one component
mul_folding(self, rhs_) ==
    LET a == self.unit.components
        b == rhs_.unit.components
    IN  [value |-> ExactMul(self.value, rhs_.value),
         unit |-> [components |->
            IF Len(a) = 1 /\ Len(b) = 1 /\ a[1].unit = b[1].unit
            THEN <<UnitExponent(a[1].unit, ExactAdd(a[1].exponent, b[1].exponent))>>
            ELSE a \o b]]

mul(self, rhs_) ==
    [value |-> ExactMul(self.value, rhs_.value),
     unit |-> [components |-> self.unit.components \o rhs_.unit.components]]

\* impl From<u64> / From<i32> for UnitValue
from(i) == [value |-> FromInt(i), unit |-> Unitless]

\* impl Display for UnitValue, components[i..]
RECURSIVE DisplayComponents(_, _)
DisplayComponents(components, i) ==
    IF i > Len(components) THEN ""
    ELSE LET unit_exponent == components[i]
         IN  (IF i > 1 \/ unit_exponent.unit.spacing = TRUE THEN " " ELSE "")
             \o unit_exponent.unit.singular_name
             \o (IF unit_exponent.exponent # FromInt(1)
                 THEN "^" \o ExactToString(unit_exponent.exponent) ELSE "")
             \o DisplayComponents(components, i + 1)

\* Display that leaves out the space only by the spacing flag, wherever the
\* component stands
RECURSIVE DisplayComponentsBySpacing(_, _)
DisplayComponentsBySpacing(components, i) ==
    IF i > Len(components) THEN ""
    ELSE LET unit_exponent == components[i]
         IN  (IF unit_exponent.unit.spacing = TRUE THEN " " ELSE "")
             \o unit_exponent.unit.singular_name
             \o (IF unit_exponent.exponent # FromInt(1)
                 THEN "^" \o ExactToString(unit_exponent.exponent) ELSE "")
             \o DisplayComponentsBySpacing(components, i + 1)

Display_by_spacing(self) ==
    ExactToString(self.value) \o DisplayComponentsBySpacing(self.unit.components, 1)

Display(self) ==
    ExactToString(self.value) \o DisplayComponents(self.unit.components, 1)

\* ------------------------------------------------------------------ lexer
\* A character is a string of length one and an input a sequence of them.
DigitChars ==
    <<"0", "1", "2", "3", "4", "5", "6", "7", "8", "9", "a", "b", "c", "d", "e",
      "f", "g", "h", "i", "j", "k", "l", "m", "n", "o", "p", "q", "r", "s", "t",
      "u", "v", "w", "x", "y", "z">>

\* char::to_digit(radix): <<d>> or <<>>
to_digit(ch, radix) ==
    LET hits == {i \in 1..Len(DigitChars) : DigitChars[i] = ch /\ i - 1 < radix}
    IN  IF hits = {} THEN <<>> ELSE <<(CHOOSE i \in hits : TRUE) - 1>>

is_ascii_digit(ch) == to_digit(ch, 10) # <<>>
is_alphabetic(ch) == to_digit(ch, 36) # <<>> /\ ~is_ascii_digit(ch)
is_whitespace(ch) == ch = " "

is_valid_in_ident_char(ch) == ch \in {"%", "'", "\""}

is_valid_in_ident(ch, first) ==
    \/ is_alphabetic(ch)
    \/ ch \in {",", "&", "_", "$"}
    \/ ~first /\ (ch = "." \/ is_ascii_digit(ch))

\* Base: the radix and whether it came without a prefix
Base(radix, plain) == [radix |-> radix, plain |-> plain]
DefaultBase == Base(10, TRUE)
base_as_u8(b) == b.radix
allow_leading_zeroes(b) == ~b.plain

\* Base::from_zero_based_prefix_char: 0x, 0d, 0o, 0b
from_zero_based_prefix_char(ch) ==
    IF ch = "x" THEN Ok(Base(16, FALSE))
    ELSE IF ch = "d" THEN Ok(Base(10, FALSE))
    ELSE IF ch = "o" THEN Ok(Base(8, FALSE))
    ELSE IF ch = "b" THEN Ok(Base(2, FALSE))
    ELSE Err("Unable to parse a valid base prefix")

\* Base::from_custom_base: base# with 2 <= base <= 36
from_custom_base(n) ==
    IF n < 2 THEN Err("Base must be at least 2")
    ELSE IF n > 36 THEN Err("Base cannot be larger than 36")
    ELSE Ok(Base(n, FALSE))

parse_char(inp) ==
    IF inp = <<>> THEN Err("Expected a character")
    ELSE Ok([ch |-> Head(inp), input |-> Tail(inp)])

parse_ascii_digit(inp, b) ==
    LET c == parse_char(inp)
    IN  IF ~IsOk(c) THEN c
        ELSE IF to_digit(Unwrap(c).ch, base_as_u8(b)) # <<>>
             THEN Ok([digit |-> to_digit(Unwrap(c).ch, base_as_u8(b))[1],
                      input |-> Unwrap(c).input])
        ELSE Err("Expected a digit, found '" \o Unwrap(c).ch \o "'")

parse_fixed_char(inp, ch) ==
    LET c == parse_char(inp)
    IN  IF ~IsOk(c) THEN c
        ELSE IF Unwrap(c).ch = ch THEN Ok(Unwrap(c).input)
        ELSE Err("Expected '" \o Unwrap(c).ch \o "', found '" \o ch \o "'")

parse_digit_separator(inp) ==
    LET c == parse_char(inp)
    IN  IF ~IsOk(c) THEN c
        ELSE IF Unwrap(c).ch \in {"_", ","} THEN Ok(Unwrap(c).input)
        ELSE Err("Expected a digit separator, found " \o Unwrap(c).ch)

\* 10 * custom_base + digit as the integer it denotes, before it is stored
\* in the u8
custom_base_sum(custom_base, digit) == 10 * custom_base + digit

\* a Result together with the sums the closure computed on the way to it
WithSums(r, sums) == [kind |-> r.kind, val |-> r.val, err |-> r.err, sums |-> sums]

\* the closure without its first test of custom_base
process_base_digit_unguarded(custom_base, digit) ==
    LET sum == custom_base_sum(custom_base, digit)
        next == sum % 256
    IN  WithSums(IF next > 36 THEN Err("Base cannot be larger than 36") ELSE Ok(next),
                 <<sum>>)

\* the closure parse_base_prefix hands to parse_integer; custom_base is a u8
process_base_digit(custom_base, digit) ==
    IF custom_base > 3 THEN WithSums(Err("Base cannot be larger than 36"), <<>>)
    ELSE LET sum == custom_base_sum(custom_base, digit)
             next == sum % 256
         IN  WithSums(IF next > 36 THEN Err("Base cannot be larger than 36")
                      ELSE Ok(next),
                      <<sum>>)

\* the loop of parse_integer(input, false, false, Base::default(), ..) as
\* parse_base_prefix runs it, after the first digit
RECURSIVE parse_base_digits(_, _, _)
parse_base_digits(inp, custom_base, leading_zero) ==
    LET sep == parse_digit_separator(inp)
        d == parse_ascii_digit(IF IsOk(sep) THEN Unwrap(sep) ELSE inp, DefaultBase)
    IN  IF IsOk(sep) THEN WithSums(Err("Digit separators are not allowed"), <<>>)
        ELSE IF ~IsOk(d)
             THEN WithSums(Ok([custom_base |-> custom_base, input |-> inp]), <<>>)
        ELSE IF leading_zero
             THEN WithSums(Err("Integer literals cannot have leading zeroes"), <<>>)
        ELSE LET p == process_base_digit(custom_base, Unwrap(d).digit)
             IN  IF ~IsOk(p) THEN p
                 ELSE [parse_base_digits(Unwrap(d).input, Unwrap(p), leading_zero)
                          EXCEPT !.sums = p.sums \o @]

parse_base_prefix(inp) ==
    IF IsOk(parse_fixed_char(inp, "0"))
    THEN LET c == parse_char(Unwrap(parse_fixed_char(inp, "0")))
         IN  IF ~IsOk(c) THEN WithSums(c, <<>>)
             ELSE LET b == from_zero_based_prefix_char(Unwrap(c).ch)
                  IN  IF ~IsOk(b) THEN WithSums(b, <<>>)
                      ELSE WithSums(Ok([base |-> Unwrap(b), input |-> Unwrap(c).input]),
                                    <<>>)
    ELSE LET first == parse_ascii_digit(inp, DefaultBase)
         IN  IF ~IsOk(first) THEN WithSums(first, <<>>)
             ELSE LET p == process_base_digit(0, Unwrap(first).digit)
                      rest == IF IsOk(p)
                              THEN [parse_base_digits(Unwrap(first).input, Unwrap(p),
                                                      Unwrap(first).digit = 0)
                                    EXCEPT !.sums = p.sums \o @]
                              ELSE p
                  IN  IF ~IsOk(rest) THEN rest
                      ELSE IF Unwrap(rest).custom_base < 2
                           THEN WithSums(Err("Base must be at least 2"), rest.sums)
                      ELSE LET hash == parse_fixed_char(Unwrap(rest).input, "#")
                               b == from_custom_base(Unwrap(rest).custom_base)
                           IN  IF ~IsOk(hash) THEN WithSums(hash, rest.sums)
                               ELSE IF ~IsOk(b) THEN WithSums(b, rest.sums)
                               ELSE WithSums(Ok([base |-> Unwrap(b),
                                                 input |-> Unwrap(hash)]),
                                             rest.sums)

\* UnitValue::zero_with_base
zero_with_base(b) == [value |-> FromInt(0), unit |-> Unitless]

\* the closure with the digit added before the multiplication
accumulate_add_first(res, b, digit) ==
    LET sum == add(res, from(digit))
    IN  IF IsOk(sum) THEN Ok(mul(Unwrap(sum), from(base_as_u8(b)))) ELSE sum

\* the closure of parse_basic_number's integer part: res * base + digit
accumulate(res, b, digit) == add(mul(res, from(base_as_u8(b))), from(digit))

\* parse_ident: <<token, rest>>
RECURSIVE ident_length(_, _)
ident_length(inp, n) ==
    IF n < Len(inp) /\ is_valid_in_ident(inp[n + 1], FALSE)
    THEN ident_length(inp, n + 1) ELSE n

RECURSIVE Concat(_)
Concat(chars) == IF chars = <<>> THEN "" ELSE Head(chars) \o Concat(Tail(chars))

Num(n) == <<"Num", n>>
Ident(name) == <<"Ident", name>>
Symbol(sym) == <<"Symbol", sym>>

parse_ident(inp) ==
    IF inp = <<>> THEN Err("Expected a character")
    ELSE IF ~is_valid_in_ident(inp[1], TRUE)
    THEN IF is_valid_in_ident_char(inp[1])
         THEN Ok([token |-> Ident(inp[1]), input |-> Tail(inp)])
         ELSE Err("Character '" \o inp[1]
                  \o "' is not valid at the beginning of an identifier")
    ELSE LET n == ident_length(inp, 1)
             ident == Concat(SubSeq(inp, 1, n))
         IN  Ok([token |-> IF ident \in {"to", "as"} THEN Symbol("ArrowConversion")
                           ELSE IF ident = "per" THEN Symbol("Div")
                           ELSE Ident(ident),
                 input |-> SubSeq(inp, n + 1, Len(inp))])

\* the symbol arm of lex, after consume_char took ch off the input
lex_symbol(ch, rest) ==
    LET one(sym) == Ok([token |-> Symbol(sym), input |-> rest])
        two(sym) == Ok([token |-> Symbol(sym), input |-> Tail(rest)])
    IN  IF ch = "(" THEN one("OpenParens")
        ELSE IF ch = ")" THEN one("CloseParens")
        ELSE IF ch = "+" THEN one("Add")
        ELSE IF ch = "!" THEN one("Factorial")
        ELSE IF ch = "-"
             THEN IF rest # <<>> /\ rest[1] = ">" THEN two("ArrowConversion")
                  ELSE one("Sub")
        ELSE IF ch = "*"
             THEN IF rest # <<>> /\ rest[1] = "*" THEN two("Pow") ELSE one("Mul")
        ELSE IF ch = "/" THEN one("Div")
        ELSE IF ch = "|" THEN one("InnerDiv")
        ELSE IF ch = "^" THEN one("Pow")
        ELSE Err("Unexpected character '" \o ch \o "'")

\* IntErr<String, I> and the value evaluate_to_string returns
IntOk(v) == [kind |-> "Ok", val |-> <<v>>, err |-> ""]
IntError(e) == [kind |-> "Error", val |-> <<>>, err |-> e]
IntInterrupt == [kind |-> "Interrupt", val |-> <<>>, err |-> ""]

FendResult(main_result) == [main_result |-> main_result, other_info |-> <<>>]

\* the match with every failure turned into one message
evaluate_with_interrupt_one_error(r) ==
    IF r.kind = "Ok" THEN Ok(FendResult(Unwrap(r))) ELSE Err("Units are incompatible")

\* the match of evaluate_with_interrupt on what evaluate_to_string returned
evaluate_with_interrupt(r) ==
    IF r.kind = "Ok" THEN Ok(FendResult(Unwrap(r)))
    ELSE IF r.kind = "Interrupt" THEN Err("Interrupted")
    ELSE Err(r.err)

\* ----------------------------------------------------- the unit calculator
\* A running value is combined with one operand after another, as the
\* evaluator does for an expression.  op, lhs and rhs record the last
\* operation and its operands, result its outcome and nops the number of
\* operations so far.  operand_components counts the unit components of all
\* the operands of the current run of mul and div: of the value the run
\* started from and of every right operand since.
Values == {0, 1}

\* Zero and one of every unit, and the twelve of test_basic_kg_and_g, with
\* and without its unit.
Literals ==
    {UnitValue(FromInt(v), c) :
        v \in Values,
        c \in {<<>>} \cup {<<UnitExponent(u, FromInt(1))>> : u \in NamedUnits}}
    \cup {UnitValue(FromInt(12), <<>>),
          UnitValue(FromInt(12), <<UnitExponent(g, FromInt(1))>>)}

InRange(r) == IsOk(r) => ~IsNaR(Unwrap(r).value)

Operands == IF IsOk(result) THEN Literals \cup {Unwrap(result)} ELSE {}

Apply(name, b, r) ==
    /\ IsOk(result)
    /\ output = ""
    /\ nops < MaxOps
    /\ InRange(r)
    /\ op' = name
    /\ lhs' = <<Unwrap(result)>>
    /\ rhs' = <<b>>
    /\ result' = r
    /\ nops' = nops + 1
    /\ operand_components' =
          IF name \in {"mul", "div"}
          THEN operand_components + Len(b.unit.components)
          ELSE IF IsOk(r) THEN Len(Unwrap(r).unit.components) ELSE 0
    /\ output' = ""
    /\ UNCHANGED lex_vars

Add == \E b \in Operands : Apply("add", b, add(Unwrap(result), b))

Sub == \E b \in Operands : Apply("sub", b, sub(Unwrap(result), b))

Mul == \E b \in Operands : Apply("mul", b, Ok(mul(Unwrap(result), b)))

Div == \E b \in Operands : Apply("div", b, div(Unwrap(result), b))

Pow == \E b \in Operands : Apply("pow", b, pow(Unwrap(result), b))

RootN == \E b \in Operands : Apply("root_n", b, root_n(Unwrap(result), b))

\* to_string() of the running value, the last step of an evaluation
to_string ==
    /\ IsOk(result)
    /\ output = ""
    /\ Formattable(Unwrap(result).value)
    /\ output' = Display(Unwrap(result))
    /\ UNCHANGED <<op, lhs, rhs, result, nops, operand_components>>
    /\ UNCHANGED lex_vars

\* no evaluation under way
LexIdle ==
    /\ pc = "idle"
    /\ input = <<>>
    /\ tokens = <<>>
    /\ base = DefaultBase
    /\ number = zero_with_base(DefaultBase)
    /\ digits = <<>>
    /\ interrupt_requested = FALSE
    /\ inner = <<>>
    /\ outcome = <<>>
    /\ prefix = <<>>

Init ==
    /\ op = "new"
    /\ lhs = <<>>
    /\ rhs = <<>>
    /\ result \in {Ok(v) : v \in Literals}
    /\ output = ""
    /\ nops = 0
    /\ operand_components = Len(Unwrap(result).unit.components)
    /\ LexIdle

Next == Add \/ Sub \/ Mul \/ Div \/ Pow \/ RootN \/ to_string

Spec == Init /\ [][Next]_vars

\* --------------------------------------------- evaluate_with_interrupt
\* One call of evaluate_with_interrupt(input, context, int).  lex runs one
\* loop iteration per step, parse_basic_number one digit per step, and the
\* caller may request the interrupt between any two steps.  inner is what
\* evaluate_to_string returned, outcome what the caller gets, and prefix the
\* last call of parse_base_prefix: its input and what it returned.  The inputs
\* hold no '.', 'e', '_' or ',', so a number is its integer part.
MaxInput == 3

Alphabet == {"0", "1", "2", "3", "9", "x", "#", "+", " "}

RECURSIVE Strings(_)
Strings(n) ==
    IF n = 0 THEN {<<>>}
    ELSE Strings(n - 1)
         \cup {Append(w, c) : w \in {v \in Strings(n - 1) : Len(v) = n - 1}, c \in Alphabet}

Prefixes == {<<>>, <<"0", "x">>, <<"1", "6", "#">>}

Inputs == {p \o w : p \in Prefixes, w \in Strings(MaxInput)}

Finish(r) ==
    /\ pc' = "done"
    /\ inner' = <<r>>
    /\ outcome' = <<evaluate_with_interrupt(r)>>

\* the early return for an empty input, else the call of evaluate_to_string
Start ==
    /\ pc = "start"
    /\ IF input = <<>>
       THEN /\ pc' = "done"
            /\ outcome' = <<Ok(FendResult(""))>>
       ELSE /\ pc' = "lex"
            /\ UNCHANGED outcome
    /\ UNCHANGED <<input, tokens, base, number, digits, interrupt_requested, inner>>
    /\ UNCHANGED prefix
    /\ UNCHANGED calc_vars

\* the caller's Interrupt object starts to answer should_interrupt() with true
RequestInterrupt ==
    /\ pc \in {"start", "lex", "digits", "eval"}
    /\ ~interrupt_requested
    /\ interrupt_requested' = TRUE
    /\ UNCHANGED <<pc, input, tokens, base, number, digits, inner, outcome>>
    /\ UNCHANGED prefix
    /\ UNCHANGED calc_vars

\* test_int(int): Err(Interrupt) when the interrupt is requested
test_int == IF interrupt_requested THEN IntInterrupt ELSE IntOk("")

\* lex, one iteration: test_int(int)? fails
LexInterrupted ==
    /\ pc = "lex"
    /\ test_int.kind = "Interrupt"
    /\ Finish(test_int)
    /\ UNCHANGED <<input, tokens, base, number, digits, interrupt_requested>>
    /\ UNCHANGED prefix
    /\ UNCHANGED calc_vars

\* lex, one iteration: the input is used up, lex returns Ok(res)
LexEnd ==
    /\ pc = "lex"
    /\ test_int.kind = "Ok"
    /\ input = <<>>
    /\ pc' = "eval"
    /\ UNCHANGED <<input, tokens, base, number, digits, interrupt_requested, inner,
                   outcome>>
    /\ UNCHANGED prefix
    /\ UNCHANGED calc_vars

LexWhitespace ==
    /\ pc = "lex"
    /\ test_int.kind = "Ok"
    /\ input # <<>>
    /\ is_whitespace(input[1])
    /\ input' = Tail(input)
    /\ UNCHANGED <<pc, tokens, base, number, digits, interrupt_requested, inner, outcome>>
    /\ UNCHANGED prefix
    /\ UNCHANGED calc_vars

\* lex, one iteration: a digit starts parse_number, which takes the base
\* prefix (or Base::default() and the input as it was) and enters
\* parse_basic_number
LexNumber ==
    /\ pc = "lex"
    /\ test_int.kind = "Ok"
    /\ input # <<>>
    /\ ~is_whitespace(input[1])
    /\ is_ascii_digit(input[1])
    /\ LET returned == parse_base_prefix(input)
       IN  /\ prefix' = <<[input |-> input, returned |-> returned]>>
           /\ base' = IF IsOk(returned) THEN Unwrap(returned).base ELSE DefaultBase
           /\ input' = IF IsOk(returned) THEN Unwrap(returned).input ELSE input
           /\ number' = zero_with_base(base')
    /\ digits' = <<>>
    /\ pc' = "digits"
    /\ UNCHANGED <<tokens, interrupt_requested, inner, outcome>>
    /\ UNCHANGED calc_vars

\* lex, one iteration: an identifier or a symbol, or the error of either
LexToken(r) ==
    /\ IF IsOk(r)
       THEN /\ tokens' = Append(tokens, Unwrap(r).token)
            /\ input' = Unwrap(r).input
            /\ UNCHANGED <<pc, inner, outcome>>
       ELSE /\ Finish(IntError(r.err))
            /\ UNCHANGED <<tokens, input>>
    /\ UNCHANGED <<base, number, digits, interrupt_requested>>
    /\ UNCHANGED prefix
    /\ UNCHANGED calc_vars

LexIdent ==
    /\ pc = "lex"
    /\ test_int.kind = "Ok"
    /\ input # <<>>
    /\ ~is_whitespace(input[1])
    /\ ~is_ascii_digit(input[1])
    /\ is_valid_in_ident(input[1], TRUE) \/ is_valid_in_ident_char(input[1])
    /\ LexToken(parse_ident(input))

LexSymbol ==
    /\ pc = "lex"
    /\ test_int.kind = "Ok"
    /\ input # <<>>
    /\ ~is_whitespace(input[1])
    /\ ~is_ascii_digit(input[1])
    /\ ~(is_valid_in_ident(input[1], TRUE) \/ is_valid_in_ident_char(input[1]))
    /\ LexToken(lex_symbol(input[1], Tail(input)))

\* parse_integer(input, true, base.allow_leading_zeroes(), base, ..) at the
\* current position: the next digit, the end of the integer, or an error
next_digit ==
    IF digits = <<>> THEN parse_ascii_digit(input, base)
    ELSE LET sep == parse_digit_separator(input)
             d == parse_ascii_digit(IF IsOk(sep) THEN Unwrap(sep) ELSE input, base)
         IN  IF ~IsOk(d)
             THEN IF IsOk(sep) THEN Err("Digit separators can only occur between digits")
                  ELSE Ok([digit |-> -1, input |-> input])
             ELSE IF digits[1] = 0 /\ ~allow_leading_zeroes(base)
                  THEN Err("Integer literals cannot have leading zeroes")
             ELSE d

\* parse_basic_number: the integer cannot go on
DigitError ==
    /\ pc = "digits"
    /\ ~IsOk(next_digit)
    /\ Finish(IntError(next_digit.err))
    /\ UNCHANGED <<input, tokens, base, number, digits, interrupt_requested>>
    /\ UNCHANGED prefix
    /\ UNCHANGED calc_vars

\* parse_basic_number: mul(.., int)? / add(.., int)? see the interrupt
DigitInterrupted ==
    /\ pc = "digits"
    /\ IsOk(next_digit)
    /\ Unwrap(next_digit).digit >= 0
    /\ test_int.kind = "Interrupt"
    /\ Finish(test_int)
    /\ UNCHANGED <<input, tokens, base, number, digits, interrupt_requested>>
    /\ UNCHANGED prefix
    /\ UNCHANGED calc_vars

\* the closure with a mul and an add that do not look at the interrupt
DigitAccumulate_unpolled ==
    /\ pc = "digits"
    /\ IsOk(next_digit)
    /\ Unwrap(next_digit).digit >= 0
    /\ LET r == accumulate(number, base, Unwrap(next_digit).digit)
       IN  /\ InRange(r)
           /\ IF IsOk(r)
              THEN /\ number' = Unwrap(r)
                   /\ digits' = Append(digits, Unwrap(next_digit).digit)
                   /\ input' = Unwrap(next_digit).input
                   /\ UNCHANGED <<pc, inner, outcome>>
              ELSE /\ Finish(IntError(r.err))
                   /\ UNCHANGED <<number, digits, input>>
    /\ UNCHANGED <<tokens, base, interrupt_requested>>
    /\ UNCHANGED prefix
    /\ UNCHANGED calc_vars

\* parse_basic_number: res = res * base + digit
DigitAccumulate ==
    /\ pc = "digits"
    /\ IsOk(next_digit)
    /\ Unwrap(next_digit).digit >= 0
    /\ test_int.kind = "Ok"
    /\ LET r == accumulate(number, base, Unwrap(next_digit).digit)
       IN  /\ InRange(r)
           /\ IF IsOk(r)
              THEN /\ number' = Unwrap(r)
                   /\ digits' = Append(digits, Unwrap(next_digit).digit)
                   /\ input' = Unwrap(next_digit).input
                   /\ UNCHANGED <<pc, inner, outcome>>
              ELSE /\ Finish(IntError(r.err))
                   /\ UNCHANGED <<number, digits, input>>
    /\ UNCHANGED <<tokens, base, interrupt_requested>>
    /\ UNCHANGED prefix
    /\ UNCHANGED calc_vars

\* parse_number returns and lex pushes Token::Num
NumberEnd ==
    /\ pc = "digits"
    /\ IsOk(next_digit)
    /\ Unwrap(next_digit).digit < 0
    /\ tokens' = Append(tokens, Num(number))
    /\ pc' = "lex"
    /\ UNCHANGED <<input, base, number, digits, interrupt_requested, inner, outcome>>
    /\ UNCHANGED prefix
    /\ UNCHANGED calc_vars

\* the parser and the evaluator behind evaluate_to_string, once lex returned
\* Ok: a text, an error of the unit algebra, or the interrupt if requested
EvalErrors == {DimensionMismatch, DivisionByZero, UnsupportedPow, UnsupportedRoot}

EvalOutcomes ==
    {IntOk(IF Len(tokens) = 1 /\ tokens[1][1] = "Num" /\ Formattable(tokens[1][2].value)
           THEN Display(tokens[1][2]) ELSE "...")}
    \cup {IntError(e) : e \in EvalErrors}
    \cup (IF interrupt_requested THEN {IntInterrupt} ELSE {})

Evaluate ==
    /\ pc = "eval"
    /\ \E r \in EvalOutcomes : Finish(r)
    /\ UNCHANGED <<input, tokens, base, number, digits, interrupt_requested>>
    /\ UNCHANGED prefix
    /\ UNCHANGED calc_vars

LexInit ==
    /\ op = "new"
    /\ lhs = <<>>
    /\ rhs = <<>>
    /\ result = Ok(from(0))
    /\ output = ""
    /\ nops = 0
    /\ operand_components = 0
    /\ pc = "start"
    /\ input \in Inputs
    /\ tokens = <<>>
    /\ base = DefaultBase
    /\ number = zero_with_base(DefaultBase)
    /\ digits = <<>>
    /\ interrupt_requested = FALSE
    /\ inner = <<>>
    /\ outcome = <<>>
    /\ prefix = <<>>

LexNext ==
    \/ Start
    \/ RequestInterrupt
    \/ LexInterrupted
    \/ LexEnd
    \/ LexWhitespace
    \/ LexNumber
    \/ LexIdent
    \/ LexSymbol
    \/ DigitError
    \/ DigitInterrupted
    \/ DigitAccumulate
    \/ NumberEnd
    \/ Evaluate

LexSpec == LexInit /\ [][LexNext]_vars

\* ------------------------------------------------------------------ claims
LhsV == lhs[1]
RhsV == rhs[1]
ResV == Unwrap(result)

OneKg == UnitValue(FromInt(1), <<UnitExponent(kg, FromInt(1))>>)
TwelveG == UnitValue(FromInt(12), <<UnitExponent(g, FromInt(1))>>)

\* C1: when try_convert(b.unit, a.unit) gives the factor f, a.add(b) is Ok
\* with a's components and the value a.value + b.value * f, a.sub(b) the same
\* with a minus; 1 kg + 12 g is shown as "1.012 kg", 12 g + 1 kg as "1012 g".
C1_LeftOperandUnitWins ==
    /\ op \in {"add", "sub"} /\ IsOk(try_convert(RhsV.unit, LhsV.unit)) =>
          LET f == Unwrap(try_convert(RhsV.unit, LhsV.unit))
              scaled == ExactMul(RhsV.value, f)
          IN  /\ IsOk(result)
              /\ ResV.unit.components = LhsV.unit.components
              /\ ResV.value = IF op = "add" THEN ExactAdd(LhsV.value, scaled)
                                             ELSE ExactSub(LhsV.value, scaled)
    /\ op = "add" /\ LhsV = OneKg /\ RhsV = TwelveG /\ output # "" =>
          output = "1.012 kg"
    /\ op = "add" /\ LhsV = TwelveG /\ RhsV = OneKg /\ output # "" =>
          output = "1012 g"

C1_Witness ==
    op = "add" /\ LhsV = TwelveG /\ RhsV = OneKg /\ output = "1012 g"

\* The canonical map and aggregate scale as the specification defines them:
\* every Base Unit maps to the sum of e * baseExp over all components and
\* decomposition entries, the scale is the product of scale ^ e.
RECURSIVE BaseUnitExponent(_, _, _)
BaseUnitExponent(named_unit_exp, key, j) ==
    IF j > Len(named_unit_exp.unit.base_units) THEN FromInt(0)
    ELSE ExactAdd(
             IF named_unit_exp.unit.base_units[j].unit = key
             THEN ExactMul(named_unit_exp.exponent,
                           named_unit_exp.unit.base_units[j].exponent)
             ELSE FromInt(0),
             BaseUnitExponent(named_unit_exp, key, j + 1))

RECURSIVE SumOfExponents(_, _, _)
SumOfExponents(components, key, i) ==
    IF i > Len(components) THEN FromInt(0)
    ELSE ExactAdd(BaseUnitExponent(components[i], key, 1),
                  SumOfExponents(components, key, i + 1))

CanonicalMap(unit) ==
    LET keys == UNION {{unit.components[i].unit.base_units[j].unit :
                           j \in 1..Len(unit.components[i].unit.base_units)} :
                       i \in 1..Len(unit.components)}
    IN  [key \in keys |-> SumOfExponents(unit.components, key, 1)]

RECURSIVE AggregateScale(_, _)
AggregateScale(components, i) ==
    IF i > Len(components) THEN FromInt(1)
    ELSE ExactMul(Unwrap(ExactPow(components[i].unit.scale, components[i].exponent)),
                  AggregateScale(components, i + 1))

\* C2: into_hashmap_and_scale maps every Base Unit to the sum of e * baseExp,
\* on the first insertion of a Base Unit as on every later accumulation.
C2_CanonicalMapIsSumOfProducts ==
    op \in {"add", "sub"} =>
        /\ into_hashmap_and_scale(LhsV.unit).hashmap = CanonicalMap(LhsV.unit)
        /\ into_hashmap_and_scale(RhsV.unit).hashmap = CanonicalMap(RhsV.unit)

\* C3: try_convert succeeds exactly when the canonical maps of the two units
\* are equal, then with scale_from / scale_into, and otherwise add and sub
\* return "Units are incompatible" and no value.
C3_ConvertIffCanonicalMapsEqual ==
    op \in {"add", "sub"} =>
        LET converted == try_convert(RhsV.unit, LhsV.unit)
            scale_from == AggregateScale(RhsV.unit.components, 1)
            scale_into == AggregateScale(LhsV.unit.components, 1)
        IN  IF CanonicalMap(RhsV.unit) = CanonicalMap(LhsV.unit)
            THEN /\ IsOk(converted)
                 /\ converted = ExactDiv(scale_from, scale_into)
                 /\ IsOk(result)
            ELSE /\ converted = Err(DimensionMismatch)
                 /\ result = Err(DimensionMismatch)

\* C4: for x and y in compatible units x.add(y) and y.add(x) both succeed,
\* x.add(y).value = y.add(x).value * try_convert(y.unit, x.unit), and each
\* result carries its left operand's unit.
C4_AddCommutesNumerically ==
    op = "add" /\ CanonicalMap(LhsV.unit) = CanonicalMap(RhsV.unit) =>
        LET back == add(RhsV, LhsV)
            f == try_convert(RhsV.unit, LhsV.unit)
        IN  /\ IsOk(result)
            /\ IsOk(back)
            /\ IsOk(f)
            /\ ResV.unit = LhsV.unit
            /\ Unwrap(back).unit = RhsV.unit
            /\ IsNaR(Unwrap(back).value) \/ IsNaR(Unwrap(f))
                  \/ ResV.value = ExactMul(Unwrap(back).value, Unwrap(f))

\* C5: div fails with the division-by-zero error whenever b.value is zero,
\* whatever the units of a and b, and the units never make it fail.
C5_DivByZeroRegardlessOfUnits ==
    op = "div" =>
        IF IsZero(RhsV.value) THEN result = Err(DivisionByZero) ELSE IsOk(result)

C5_Witness ==
    /\ op = "div"
    /\ IsZero(RhsV.value)
    /\ LhsV.unit.components # <<>>
    /\ ~IsOk(try_convert(RhsV.unit, LhsV.unit))
    /\ result = Err(DivisionByZero)

\* C6: the unit of a * b is a's components followed by b's, the unit of
\* a.div(b) is a's components followed by b's with every exponent negated;
\* nothing is folded, so after a sequence of mul and div the result has as
\* many components as all the operands together.
C6_MulDivNeverSimplify ==
    /\ op = "mul" =>
          /\ IsOk(result)
          /\ ResV.unit.components = LhsV.unit.components \o RhsV.unit.components
    /\ op = "div" /\ ~IsZero(RhsV.value) =>
          /\ IsOk(result)
          /\ Len(ResV.unit.components)
                = Len(LhsV.unit.components) + Len(RhsV.unit.components)
          /\ SubSeq(ResV.unit.components, 1, Len(LhsV.unit.components))
                = LhsV.unit.components
          /\ \A i \in 1..Len(RhsV.unit.components) :
                LET c == ResV.unit.components[Len(LhsV.unit.components) + i]
                IN  /\ c.unit = RhsV.unit.components[i].unit
                    /\ ExactAdd(c.exponent, RhsV.unit.components[i].exponent)
                          = FromInt(0)
    /\ IsOk(result) => Len(ResV.unit.components) = operand_components

C6_Witness ==
    /\ op = "div"
    /\ nops = 2
    /\ IsOk(result)
    /\ LhsV.unit.components = <<UnitExponent(kg, FromInt(1)),
                                 UnitExponent(kg, FromInt(1))>>
    /\ operand_components = 3
    /\ ResV.unit.components = <<UnitExponent(kg, FromInt(1)),
                                 UnitExponent(kg, FromInt(1)),
                                 UnitExponent(kg, FromInt(-1))>>

ComponentText(c, first) ==
    (IF first /\ ~c.unit.spacing THEN "" ELSE " ")
    \o c.unit.singular_name
    \o (IF c.exponent = FromInt(1) THEN "" ELSE "^" \o ExactToString(c.exponent))

RECURSIVE UnitText(_, _)
UnitText(components, n) ==
    IF n = 0 THEN ""
    ELSE UnitText(components, n - 1) \o ComponentText(components[n], n = 1)

ThreeKg == UnitValue(FromInt(3), <<UnitExponent(kg, FromInt(1))>>)

C8_DisplayFormat ==
    output # "" =>
        /\ output = ExactToString(ResV.value)
                      \o UnitText(ResV.unit.components, Len(ResV.unit.components))
        /\ ResV.unit.components = <<>> => output = ExactToString(ResV.value)
        /\ ResV = ThreeKg => output = "3 kg"
        /\ ResV = UnitValue(FromInt(12), <<UnitExponent(percent, FromInt(1))>>)
              => output = "12%"
        /\ ResV = UnitValue(FromInt(12), <<UnitExponent(m, FromInt(1)),
                                           UnitExponent(percent, FromInt(-1))>>)
              => output = "12 m %^-1"

C8_Witness ==
    /\ output = "3 kg"
    /\ op = "add"
    /\ ResV = ThreeKg

\* C9: feeding the digits d1..dn, most significant first, into
\* zero_with_base(b) by value * b + digit gives exactly the sum of
\* d_i * b^(n-i), a unitless number: 1,2,3 is 123 in base 10 and 291 in base 16.
RECURSIVE IntPow(_, _)
IntPow(b, n) == IF n = 0 THEN 1 ELSE b * IntPow(b, n - 1)

RECURSIVE PositionalSum(_, _, _)
PositionalSum(ds, radix, i) ==
    IF i > Len(ds) THEN 0
    ELSE ds[i] * IntPow(radix, Len(ds) - i) + PositionalSum(ds, radix, i + 1)

C9_DigitsGivePositionalValue ==
    /\ pc = "digits" /\ digits = <<>> => number = zero_with_base(base)
    /\ digits # <<>> =>
          /\ \A i \in 1..Len(digits) : digits[i] \in 0..(base_as_u8(base) - 1)
          /\ number.value = FromInt(PositionalSum(digits, base_as_u8(base), 1))
          /\ number.unit.components = <<>>
          /\ digits = <<1, 2, 3>> /\ base_as_u8(base) = 10
                => number.value = FromInt(123)
          /\ digits = <<1, 2, 3>> /\ base_as_u8(base) = 16
                => number.value = FromInt(291)

C9_Witness ==
    /\ digits = <<1, 2, 3>>
    /\ base_as_u8(base) = 16
    /\ number = from(291)
    /\ tokens = <<Num(from(291))>>

\* C10: what evaluate_with_interrupt returns when the evaluation was
\* interrupted differs from everything it returns for an ordinary error (and
\* for a result), so the caller can tell a cancellation from a wrong input.
C10_InterruptedIsDistinct ==
    pc = "done" /\ inner # <<>> =>
        /\ inner[1].kind = "Interrupt" => outcome[1] = Err("Interrupted")
        /\ inner[1].kind # "Interrupt" =>
              outcome[1] # evaluate_with_interrupt(IntInterrupt)

C10_Witness ==
    /\ pc = "done"
    /\ inner = <<IntInterrupt>>
    /\ digits # <<>>
    /\ outcome = <<Err("Interrupted")>>

\* C11: add and sub hand every failure of the unit algebra back to their
\* caller as an error value: each returns Ok or Err and never aborts, also
\* when the power of a unit's scale fails during canonicalization and when
\* the target unit's aggregate scale is zero.
C11_AddSubReturnOkOrErr ==
    op \in {"add", "sub"} => result.kind \in {"Ok", "Err"}

\* C12: once the interrupt is requested, the poll at the start of the next
\* iteration of lex's token loop, and the mul/add of the next digit of a
\* number, end lex at once with the Interrupt outcome, reported as
\* "Interrupted"; from then on lex never returns Ok with its token list and
\* the number under accumulation takes no further digit.
LexReturnsInterrupt ==
    /\ pc' = "done"
    /\ inner' = <<IntInterrupt>>
    /\ outcome' = <<Err("Interrupted")>>

C12_InterruptStopsLexing ==
    [][/\ interrupt_requested /\ pc = "lex" => LexReturnsInterrupt
       /\ interrupt_requested /\ pc = "digits" /\ IsOk(next_digit)
              /\ Unwrap(next_digit).digit >= 0 => LexReturnsInterrupt
       /\ interrupt_requested /\ pc \in {"lex", "digits"} =>
              /\ pc' # "eval"
              /\ number' = number
              /\ digits' = digits]_vars

\* "123" interrupted after its first digit: Interrupted, not the number 1
C12_Witness ==
    /\ pc = "done"
    /\ inner = <<IntInterrupt>>
    /\ outcome = <<Err("Interrupted")>>
    /\ digits = <<1>>
    /\ number = from(1)
    /\ input = <<"2", "3">>
    /\ tokens = <<>>

\* the decimal digits an input starts with, and the number N they write
RECURSIVE LeadingDigits(_, _)
LeadingDigits(inp, n) ==
    IF n < Len(inp) /\ is_ascii_digit(inp[n + 1]) THEN LeadingDigits(inp, n + 1) ELSE n

RECURSIVE DecimalValue(_, _)
DecimalValue(inp, n) ==
    IF n = 0 THEN 0 ELSE 10 * DecimalValue(inp, n - 1) + to_digit(inp[n], 10)[1]

\* the input of the last parse_base_prefix is a custom prefix "N#"
IsCustomPrefix(inp) ==
    LET n == LeadingDigits(inp, 0)
    IN  n >= 1 /\ n < Len(inp) /\ inp[n + 1] = "#"

PrefixN == DecimalValue(prefix[1].input, LeadingDigits(prefix[1].input, 0))

\* every value 10 * custom_base + digit took is at most 39, so fits the u8
AccumulatorFits ==
    \A i \in 1..Len(prefix[1].returned.sums) : prefix[1].returned.sums[i] <= 39

\* "N#" is accepted only for 2 <= N <= 36, and then as base N
AcceptedOnlyInRange ==
    IsCustomPrefix(prefix[1].input) /\ IsOk(prefix[1].returned) =>
        /\ 2 <= PrefixN /\ PrefixN <= 36
        /\ Unwrap(prefix[1].returned).base = Base(PrefixN, FALSE)

\* C13 as stated: parse_base_prefix accepts "N#" only when 2 <= N <= 36, N < 2
\* fails with "Base must be at least 2", N > 36 fails with "Base cannot be
\* larger than 36", and the u8 accumulator never exceeds 39.
C13_CustomBaseBetween2And36 ==
    prefix # <<>> =>
        /\ AccumulatorFits
        /\ AcceptedOnlyInRange
        /\ IsCustomPrefix(prefix[1].input) /\ PrefixN < 2 =>
              prefix[1].returned = WithSums(Err("Base must be at least 2"),
                                            prefix[1].returned.sums)
        /\ IsCustomPrefix(prefix[1].input) /\ PrefixN > 36 =>
              prefix[1].returned = WithSums(Err("Base cannot be larger than 36"),
                                            prefix[1].returned.sums)

\* C13 amended: the two messages are those of an N written without a leading
\* 0; an input that starts with 0 is read as a zero-based prefix (0x, 0d, 0o,
\* 0b), fails with the error of Base::from_zero_based_prefix_char and leaves
\* the accumulator untouched.
C13_CustomBaseWithoutLeadingZero ==
    prefix # <<>> =>
        /\ AccumulatorFits
        /\ AcceptedOnlyInRange
        /\ IsCustomPrefix(prefix[1].input) /\ prefix[1].input[1] # "0"
              /\ PrefixN < 2 =>
              prefix[1].returned = WithSums(Err("Base must be at least 2"),
                                            prefix[1].returned.sums)
        /\ IsCustomPrefix(prefix[1].input) /\ prefix[1].input[1] # "0"
              /\ PrefixN > 36 =>
              prefix[1].returned = WithSums(Err("Base cannot be larger than 36"),
                                            prefix[1].returned.sums)
        /\ IsCustomPrefix(prefix[1].input) /\ prefix[1].input[1] = "0" =>
              prefix[1].returned =
                  WithSums(from_zero_based_prefix_char(prefix[1].input[2]), <<>>)

\* "39#": the accumulator reaches 39 and the prefix is refused
C13_Witness ==
    /\ prefix # <<>>
    /\ prefix[1].input = <<"3", "9", "#">>
    /\ prefix[1].returned = WithSums(Err("Base cannot be larger than 36"), <<3, 39>>)
    /\ base = DefaultBase
    /\ pc = "digits"

\* the unit of x.div(x) for x in kg
CancelledKg == <<UnitExponent(kg, FromInt(1)), UnitExponent(kg, FromInt(-1))>>

====
